---- MODULE Spec2Model ----
(***************************************************************************)
(* JSON-RPC 2.0 message construction and classification, modelled from     *)
(* src/jsonrpc.go.  Wire text is a sequence of tokens, a decoded JSON      *)
(* object is a record of its (possibly absent) members, and a Go value     *)
(* (interface{}) is a record carrying its dynamic type.                    *)
(***************************************************************************)
EXTENDS Integers, Sequences, FiniteSets, TLC

\* ---------------------------------------------------------------- bounds
MaxInt == 1
MaxBatch == 2

\* ------------------------------------------------------- package variables
jsonRPCVersion == "2.0"
Invalid == "invalid"
NotificationType == "notification"
RequestType == "request"
ErrorType == "error"
SuccessType == "success"

NoErr == "nil"
ErrEmptyMessage == "Empty jsonrpc message"
ErrResultArgument == "Invalid 'result' argument that's required"
ErrJsonrpcVersion == "invalid jsonrpc version"
ErrJsonrpcObject == "invalid jsonrpc object"
ErrInvalidID == "invalid id that MUST contain a String, Number, or NULL value"
ErrMsgStructures == "invalid jsonrpc message structures"
ErrBatchEmpty == "empty message"

\* ------------------------------------------------------------ JSON values
\* A JSON value on the wire: kind k, string payload s, number n.f (f is 0
\* or 5: the value n or n + 1/2).  "absent" marks a member that is missing.
JV(k, s, n, f) == [k |-> k, s |-> s, n |-> n, f |-> f]
JAbsent == JV("absent", "", 0, 0)
JNull == JV("null", "", 0, 0)
JStr(s) == JV("string", s, 0, 0)
JNum(n, f) == JV("number", "", n, f)
JBool(b) == JV("bool", "", IF b THEN 1 ELSE 0, 0)
JArr == JV("array", "", 0, 0)
JObj == JV("object", "", 0, 0)

\* The "error" member of a decoded object: absent, null, a string, or an
\* object with (possibly absent) code, message and data members.
JErr(k, c, m, d) == [k |-> k, code |-> c, message |-> m, data |-> d]
JErrAbsent == JErr("absent", JAbsent, JAbsent, JAbsent)
JErrNull == JErr("null", JAbsent, JAbsent, JAbsent)
JErrStr == JErr("string", JAbsent, JAbsent, JAbsent)

\* A decoded JSON object (map[string]interface{}) restricted to the members
\* the package reads.
JMsg(v, m, p, i, r, e) ==
    [jsonrpc |-> v, method |-> m, params |-> p, id |-> i, result |-> r, error |-> e]
EmptyObj == JMsg(JAbsent, JAbsent, JAbsent, JAbsent, JAbsent, JErrAbsent)

\* --------------------------------------------------------------- Go values
\* An interface{} value: dynamic type k ("nil" is the nil interface).
GV(k, s, n, f) == [k |-> k, s |-> s, n |-> n, f |-> f]
GoNil == GV("nil", "", 0, 0)
GoStr(s) == GV("string", s, 0, 0)
GoInt(n) == GV("int", "", n, 0)
GoInt64(n) == GV("int64", "", n, 0)
GoFloat(n, f) == GV("float64", "", n, f)
GoBool(b) == GV("bool", "", IF b THEN 1 ELSE 0, 0)
GoSlice == GV("slice", "", 0, 0)
GoNilSlice == GV("nilslice", "", 0, 0)
GoMap == GV("map", "", 0, 0)
GoChan == GV("chan", "", 0, 0)

\* json.Unmarshal into interface{}: the Go value a JSON value decodes to.
\* A missing map key reads as the nil interface.
ToGo(j) ==
    CASE j.k = "string" -> GoStr(j.s)
      [] j.k = "number" -> GoFloat(j.n, j.f)
      [] j.k = "bool" -> GV("bool", "", j.n, 0)
      [] j.k = "array" -> GoSlice
      [] j.k = "object" -> GoMap
      [] OTHER -> GoNil

\* json.Marshal of an interface{} value.
ToJSON(g) ==
    CASE g.k = "string" -> JStr(g.s)
      [] g.k \in {"int", "int64", "float64"} -> JNum(g.n, g.f)
      [] g.k = "bool" -> JV("bool", "", g.n, 0)
      [] g.k = "slice" -> JArr
      [] g.k = "map" -> JObj
      [] OTHER -> JNull

\* omitempty leaving out every zero value, not only the nil interface.
OmitEmptyZero(g) ==
    IF g.k = "nil" \/ (g.k = "string" /\ g.s = "") \/ (g.k = "bool" /\ g.n = 0)
          \/ (g.k \in {"int", "int64", "float64"} /\ g.n = 0 /\ g.f = 0)
    THEN JAbsent ELSE ToJSON(g)

\* A member tagged `omitempty` whose Go type is interface{}: left out
\* exactly when the interface is nil.
OmitEmpty(g) == IF g.k = "nil" THEN JAbsent ELSE ToJSON(g)

\* -------------------------------------------------------------- wire text
\* Text is a sequence of tokens; an "obj" token is a whole JSON object.
Tok(tk, o) == [tk |-> tk, o |-> o]
LB == Tok("[", EmptyObj)
RB == Tok("]", EmptyObj)
CM == Tok(",", EmptyObj)
JK == Tok("x", EmptyObj)
WS == Tok(" ", EmptyObj)
NUL == Tok("null", EmptyObj)
SC == Tok("1", EmptyObj)
OBJ(o) == Tok("obj", o)

\* len(msg): the number of bytes of the text.
TokLen(t) == CASE t.tk = "null" -> 4 [] t.tk = "obj" -> 2 [] OTHER -> 1
RECURSIVE ByteLen(_)
ByteLen(msg) == IF msg = <<>> THEN 0 ELSE TokLen(Head(msg)) + ByteLen(Tail(msg))

RECURSIVE StripWS(_)
StripWS(msg) ==
    IF msg = <<>> THEN <<>>
    ELSE IF Head(msg).tk = " " THEN StripWS(Tail(msg))
    ELSE <<Head(msg)>> \o StripWS(Tail(msg))

\* The members of a JSON array text "[" v "," v ... "]", or <<JK>> when the
\* text is not a well-formed array of values.
IsValueTok(t) == t.tk \in {"obj", "null", "1"}
RECURSIVE ArrayItems(_)
ArrayItems(body) ==
    \* body: the tokens after "[" of a non-empty array
    IF Len(body) < 2 \/ ~IsValueTok(body[1]) THEN <<JK>>
    ELSE IF body[2].tk = "]" THEN (IF Len(body) = 2 THEN <<body[1]>> ELSE <<JK>>)
    ELSE IF body[2].tk = "," THEN
        LET rest == ArrayItems(SubSeq(body, 3, Len(body)))
        IN IF rest = <<JK>> THEN <<JK>> ELSE <<body[1]>> \o rest
    ELSE <<JK>>
ArrayOf(toks) ==
    IF Len(toks) >= 2 /\ toks[1].tk = "[" THEN
        IF Len(toks) = 2 /\ toks[2].tk = "]" THEN <<>>
        ELSE ArrayItems(Tail(toks))
    ELSE <<JK>>

\* json.Unmarshal(msg, &p) with p a map[string]interface{}: an object
\* fills the map, null leaves it untouched, anything else is an error.
UnmarshalMap(msg) ==
    LET toks == StripWS(msg)
    IN IF Len(toks) = 1 /\ toks[1].tk = "obj" THEN [p |-> toks[1].o, ok |-> TRUE]
       ELSE IF Len(toks) = 1 /\ toks[1].tk = "null" THEN [p |-> EmptyObj, ok |-> TRUE]
       ELSE [p |-> EmptyObj, ok |-> FALSE]

\* json.Unmarshal(msg, &payloads) with payloads a []map[string]interface{}:
\* an array of objects and nulls fills the slice (null gives a nil map,
\* which reads as empty), null gives a nil slice; an element of another
\* kind, or text that is no array, is an error.
ItemMap(t) == IF t.tk = "obj" THEN t.o ELSE EmptyObj
UnmarshalMaps(msg) ==
    LET toks == StripWS(msg)
        items == ArrayOf(toks)
    IN IF Len(toks) = 1 /\ toks[1].tk = "null" THEN [ok |-> TRUE, payloads |-> <<>>]
       ELSE IF items = <<JK>> THEN [ok |-> FALSE, payloads |-> <<>>]
       ELSE IF \E i \in 1..Len(items) : items[i].tk = "1"
            THEN [ok |-> FALSE, payloads |-> <<>>]
       ELSE [ok |-> TRUE, payloads |-> [i \in 1..Len(items) |-> ItemMap(items[i])]]

\* validateMsg without the test for the empty message.
validateMsgNoEmptyTest(msg) ==
    LET u == UnmarshalMap(msg)
    IN [p |-> u.p, err |-> IF u.ok THEN NoErr ELSE ErrMsgStructures]

\* validateMsg for a single message and for a batch.
validateMsg(msg) ==
    IF msg = <<>> THEN [p |-> EmptyObj, err |-> ErrEmptyMessage]
    ELSE LET u == UnmarshalMap(msg)
         IN [p |-> u.p, err |-> IF u.ok THEN NoErr ELSE ErrMsgStructures]
\* validateMsg dropping the decode error of a batch.
validateMsgBatchNoError(msg) ==
    IF msg = <<>> THEN [payloads |-> <<>>, err |-> ErrEmptyMessage]
    ELSE [payloads |-> UnmarshalMaps(msg).payloads, err |-> NoErr]

validateMsgBatch(msg) ==
    IF msg = <<>> THEN [payloads |-> <<>>, err |-> ErrEmptyMessage]
    ELSE LET u == UnmarshalMaps(msg)
         IN [payloads |-> u.payloads, err |-> IF u.ok THEN NoErr ELSE ErrMsgStructures]

\* ------------------------------------------------------------- envelopes
PayloadReq(v, m, p, i) == [Version |-> v, Method |-> m, Params |-> p, ID |-> i]
ClientRequest(t, pl) == [Type |-> t, PlayLoad |-> pl]
ErrorObj(isnil, c, m, d) == [nil |-> isnil, Code |-> c, Message |-> m, Data |-> d]
NilErrorObj == ErrorObj(TRUE, 0, "", GoNil)
PayloadRes(v, r, e, i) == [Version |-> v, ID |-> i, Result |-> r, Error |-> e]
ClientResponse(t, pl) == [Type |-> t, PlayLoad |-> pl]

\* ----------------------------------------------------------- classification
\* checkReqType with the id test inverted.
checkReqTypeIdInverted(res) ==
    LET p == res.PlayLoad
    IN IF p.Version # jsonRPCVersion THEN [r |-> ClientRequest(Invalid, p), err |-> ErrJsonrpcVersion]
       ELSE IF p.Method = "" THEN [r |-> ClientRequest(Invalid, p), err |-> ErrJsonrpcObject]
       ELSE IF p.ID.k # "nil" THEN [r |-> ClientRequest(NotificationType, p), err |-> NoErr]
       ELSE [r |-> ClientRequest(RequestType, p), err |-> NoErr]

checkReqType(res) ==
    LET p == res.PlayLoad
    IN IF p.Version # jsonRPCVersion THEN [r |-> ClientRequest(Invalid, p), err |-> ErrJsonrpcVersion]
       ELSE IF p.Method = "" THEN [r |-> ClientRequest(Invalid, p), err |-> ErrJsonrpcObject]
       ELSE IF p.ID.k = "nil" THEN [r |-> ClientRequest(NotificationType, p), err |-> NoErr]
       ELSE [r |-> ClientRequest(RequestType, p), err |-> NoErr]

\* checkResType without the version test.
checkResTypeAnyVersion(res) ==
    LET p == res.PlayLoad
    IN IF ~p.Error.nil THEN [r |-> ClientResponse(ErrorType, p), err |-> NoErr]
       ELSE IF p.Result.k # "nil" THEN [r |-> ClientResponse(SuccessType, p), err |-> NoErr]
       ELSE [r |-> res, err |-> ErrJsonrpcObject]

checkResType(res) ==
    LET p == res.PlayLoad
    IN IF p.Version # jsonRPCVersion THEN [r |-> ClientResponse(Invalid, p), err |-> ErrJsonrpcVersion]
       ELSE IF ~p.Error.nil THEN [r |-> ClientResponse(ErrorType, p), err |-> NoErr]
       ELSE IF p.Result.k # "nil" THEN [r |-> ClientResponse(SuccessType, p), err |-> NoErr]
       ELSE [r |-> res, err |-> ErrJsonrpcObject]

\* x.(string) on a map entry that is present: panics unless a string.
AssertsString(j) == j.k = "string"
\* x.(float64) on a map lookup: panics unless a number (a missing key
\* reads as nil and panics).
AssertsFloat64(j) == j.k = "number"

\* int(x) of a float64: truncation toward zero.
IntOf(j) == IF j.f # 0 /\ j.n < 0 THEN j.n + 1 ELSE j.n

parseReqMapPanics(val) ==
    \/ val.jsonrpc.k # "absent" /\ ~AssertsString(val.jsonrpc)
    \/ val.method.k # "absent" /\ ~AssertsString(val.method)

\* parseReqMap keeping the id only when it is a string.
parseReqMapStringID(val) ==
    LET pl == PayloadReq(IF val.jsonrpc.k = "absent" THEN "" ELSE val.jsonrpc.s,
                         IF val.method.k = "absent" THEN "" ELSE val.method.s,
                         ToGo(val.params),
                         IF val.id.k = "string" THEN ToGo(val.id) ELSE GoNil)
        c == checkReqType(ClientRequest("", pl))
    IN IF parseReqMapPanics(val)
       THEN [r |-> ClientRequest("", pl), err |-> NoErr, panic |-> TRUE]
       ELSE [r |-> c.r, err |-> c.err, panic |-> FALSE]

parseReqMap(val) ==
    LET pl == PayloadReq(IF val.jsonrpc.k = "absent" THEN "" ELSE val.jsonrpc.s,
                         IF val.method.k = "absent" THEN "" ELSE val.method.s,
                         ToGo(val.params),
                         ToGo(val.id))
        c == checkReqType(ClientRequest("", pl))
    IN IF parseReqMapPanics(val)
       THEN [r |-> ClientRequest("", pl), err |-> NoErr, panic |-> TRUE]
       ELSE [r |-> c.r, err |-> c.err, panic |-> FALSE]

parseResMapPanics(val) ==
    \/ val.jsonrpc.k # "absent" /\ ~AssertsString(val.jsonrpc)
    \/ /\ val.error.k = "object"
       /\ \/ ~AssertsFloat64(val.error.code)
          \/ ~AssertsString(val.error.message)

\* parseResMap dropping the result of an object that names a method.
parseResMapMethodWins(val) ==
    LET e == IF val.error.k = "absent" THEN NilErrorObj
             ELSE IF val.error.k = "object"
                  THEN ErrorObj(FALSE, IntOf(val.error.code), val.error.message.s,
                                ToGo(val.error.data))
             ELSE ErrorObj(FALSE, 0, "", GoNil)
        pl == PayloadRes(IF val.jsonrpc.k = "absent" THEN "" ELSE val.jsonrpc.s,
                         IF val.method.k = "string" /\ val.method.s # ""
                         THEN GoNil ELSE ToGo(val.result),
                         e, ToGo(val.id))
        c == checkResType(ClientResponse("", pl))
    IN IF parseResMapPanics(val)
       THEN [r |-> ClientResponse("", pl), err |-> NoErr, panic |-> TRUE]
       ELSE [r |-> c.r, err |-> c.err, panic |-> FALSE]

parseResMap(val) ==
    LET e == IF val.error.k = "absent" THEN NilErrorObj
             ELSE IF val.error.k = "object"
                  THEN ErrorObj(FALSE, IntOf(val.error.code), val.error.message.s,
                                ToGo(val.error.data))
             ELSE ErrorObj(FALSE, 0, "", GoNil)
        pl == PayloadRes(IF val.jsonrpc.k = "absent" THEN "" ELSE val.jsonrpc.s,
                         ToGo(val.result), e, ToGo(val.id))
        c == checkResType(ClientResponse("", pl))
    IN IF parseResMapPanics(val)
       THEN [r |-> ClientResponse("", pl), err |-> NoErr, panic |-> TRUE]
       ELSE [r |-> c.r, err |-> c.err, panic |-> FALSE]

\* ------------------------------------------------------------ constructors
validateID(id) ==
    IF id.k # "nil" /\ id.k \notin {"string", "int"} THEN ErrInvalidID ELSE NoErr

\* json.Marshal fails on a value of a type JSON cannot carry.
Marshalable(g) == g.k # "chan"
ErrUnsupported == "json: unsupported type"

MarshalReq(p) ==
    JMsg(JStr(p.Version), JStr(p.Method), OmitEmpty(p.Params), OmitEmpty(p.ID),
         JAbsent, JErrAbsent)

MarshalErrorObj(e) ==
    IF e.nil THEN JErrAbsent
    ELSE JErr("object", JNum(e.Code, 0), JStr(e.Message), OmitEmpty(e.Data))

MarshalRes(p) ==
    JMsg(JStr(p.Version), JAbsent, JAbsent, OmitEmpty(p.ID), OmitEmpty(p.Result),
         MarshalErrorObj(p.Error))

\* Request(id, method, args...): hasArgs tells whether args[0] was given.
Request(id, method, hasArgs, arg) ==
    LET p == PayloadReq(jsonRPCVersion, method, IF hasArgs THEN arg ELSE GoNil, id)
    IN IF validateID(id) # NoErr THEN [err |-> validateID(id), str |-> <<>>]
       ELSE IF ~Marshalable(p.Params) THEN [err |-> ErrUnsupported, str |-> <<>>]
       ELSE [err |-> NoErr, str |-> <<OBJ(MarshalReq(p))>>]

Notification(method, hasArgs, arg) == Request(GoNil, method, hasArgs, arg)

\* Success validating the id before looking at the result.
SuccessIdFirst(id, result) ==
    LET p == PayloadRes(jsonRPCVersion, result, NilErrorObj, id)
    IN IF validateID(id) # NoErr THEN [err |-> validateID(id), str |-> <<>>]
       ELSE IF result.k = "nil" THEN [err |-> ErrResultArgument, str |-> <<>>]
       ELSE IF ~Marshalable(result) THEN [err |-> ErrUnsupported, str |-> <<>>]
       ELSE [err |-> NoErr, str |-> <<OBJ(MarshalRes(p))>>]

Success(id, result) ==
    LET p == PayloadRes(jsonRPCVersion, result, NilErrorObj, id)
    IN IF result.k = "nil" THEN [err |-> ErrResultArgument, str |-> <<>>]
       ELSE IF validateID(id) # NoErr THEN [err |-> validateID(id), str |-> <<>>]
       ELSE IF ~Marshalable(result) THEN [err |-> ErrUnsupported, str |-> <<>>]
       ELSE [err |-> NoErr, str |-> <<OBJ(MarshalRes(p))>>]

Error(id, rpcerr) ==
    LET p == PayloadRes(jsonRPCVersion, GoNil, rpcerr, id)
    IN IF validateID(id) # NoErr THEN [err |-> validateID(id), str |-> <<>>]
       ELSE IF ~rpcerr.nil /\ ~Marshalable(rpcerr.Data) THEN [err |-> ErrUnsupported, str |-> <<>>]
       ELSE [err |-> NoErr, str |-> <<OBJ(MarshalRes(p))>>]

CreateError(code, msg, hasData, data) ==
    ErrorObj(FALSE, code, msg, IF hasData THEN data ELSE GoNil)

RECURSIVE JoinComma(_)
JoinComma(batch) ==
    IF Len(batch) = 1 THEN batch[1]
    ELSE batch[1] \o <<CM>> \o JoinComma(Tail(batch))
\* Batch leaving out the fragment after the loop.
RECURSIVE EachWithComma(_)
EachWithComma(batch) ==
    IF Len(batch) <= 1 THEN <<>>
    ELSE batch[1] \o <<CM>> \o EachWithComma(Tail(batch))
BatchWithoutLast(batch) ==
    IF Len(batch) = 0 THEN <<LB, RB>>
    ELSE <<LB>> \o EachWithComma(batch) \o <<RB>>

Batch(batch) ==
    IF Len(batch) = 0 THEN <<LB, RB>>
    ELSE <<LB>> \o JoinComma(batch) \o <<RB>>

\* ----------------------------------------------------------------- parsers
Parse(msg) ==
    LET v == validateMsg(msg)
        m == parseReqMap(v.p)
    IN IF v.err # NoErr THEN [err |-> v.err, panic |-> FALSE, req |-> <<>>]
       ELSE IF m.panic THEN [err |-> NoErr, panic |-> TRUE, req |-> <<>>]
       ELSE [err |-> m.err, panic |-> FALSE, req |-> <<m.r>>]

ParseReply(msg) ==
    LET v == validateMsg(msg)
        m == parseResMap(v.p)
    IN IF v.err # NoErr THEN [err |-> v.err, res |-> <<>>, panic |-> FALSE]
       ELSE IF m.panic THEN [err |-> NoErr, res |-> <<>>, panic |-> TRUE]
       ELSE [err |-> m.err, res |-> <<m.r>>, panic |-> FALSE]

ParseBatch(msg) ==
    LET v == validateMsgBatch(msg)
        n == Len(v.payloads)
    IN IF ByteLen(msg) < 2 THEN [err |-> ErrBatchEmpty, panic |-> FALSE, req |-> <<>>]
       ELSE IF v.err # NoErr THEN [err |-> v.err, panic |-> FALSE, req |-> <<>>]
       ELSE IF \E i \in 1..n : parseReqMap(v.payloads[i]).panic
            THEN [err |-> NoErr, panic |-> TRUE, req |-> <<>>]
       ELSE [err |-> NoErr, panic |-> FALSE,
             req |-> [i \in 1..n |-> parseReqMap(v.payloads[i]).r]]

ParseBatchReply(msg) ==
    LET v == validateMsgBatch(msg)
        n == Len(v.payloads)
    IN IF ByteLen(msg) < 2 THEN [err |-> ErrEmptyMessage, res |-> <<>>, panic |-> FALSE]
       ELSE IF v.err # NoErr THEN [err |-> v.err, res |-> <<>>, panic |-> FALSE]
       ELSE IF \E i \in 1..n : parseResMap(v.payloads[i]).panic
            THEN [err |-> NoErr, res |-> <<>>, panic |-> TRUE]
       ELSE [err |-> NoErr, res |-> [i \in 1..n |-> parseResMap(v.payloads[i]).r],
             panic |-> FALSE]

\* ------------------------------------------------------------ input domains
Ints == 0..MaxInt
JVersions == {JAbsent, JNull, JStr("2.0"), JStr("1.0"), JNum(2, 0)}
JMethods == {JAbsent, JNull, JStr(""), JStr("update"), JNum(1, 0)}
JIds == {JAbsent, JNull, JStr("123"), JBool(TRUE), JArr, JObj}
            \cup {JNum(n, f) : n \in Ints, f \in {0, 5}}
JParams == {JAbsent, JNum(0, 0)}
JResults == {JAbsent, JNull, JStr("OK"), JBool(FALSE)}
JCodes == {JAbsent, JNum(-32601, 0), JNum(-2, 5), JStr("1")}
JMessages == {JAbsent, JStr("test"), JNum(0, 0)}
JDatas == {JAbsent, JStr("xx")}
JErrors == {JErrAbsent, JErrNull, JErrStr}
            \cup {JErr("object", c, m, d) : c \in JCodes, m \in JMessages, d \in JDatas}
Objs == {JMsg(v, m, p, i, r, e) : v \in JVersions, m \in JMethods, p \in JParams,
                                   i \in JIds, r \in JResults, e \in JErrors}

\* Texts handed to the single-message parsers.
SingleTexts == {<<>>, <<WS>>, <<WS, WS>>, <<JK>>, <<NUL>>, <<SC>>, <<LB, RB>>,
                <<OBJ(EmptyObj), JK>>}
                 \cup {<<OBJ(o)>> : o \in Objs}

\* Elements of the batches handed to the batch parsers.
ReqObj(i) == JMsg(JStr("2.0"), JStr("update"), JAbsent, i, JAbsent, JErrAbsent)
BatchObjs ==
    { ReqObj(JStr("123")), ReqObj(JNum(1, 0)), ReqObj(JAbsent), ReqObj(JBool(TRUE)), EmptyObj,
      JMsg(JStr("2.0"), JStr("update"), JAbsent, JStr("123"), JStr("OK"), JErrAbsent),
      JMsg(JStr("1.0"), JStr("update"), JAbsent, JStr("123"), JAbsent, JErrAbsent),
      JMsg(JNum(2, 0), JStr("update"), JAbsent, JStr("123"), JAbsent, JErrAbsent),
      JMsg(JStr("2.0"), JAbsent, JAbsent, JStr("123"), JAbsent, JErrAbsent),
      JMsg(JStr("2.0"), JAbsent, JAbsent, JStr("123"), JStr("OK"), JErrAbsent),
      JMsg(JStr("2.0"), JAbsent, JAbsent, JNull, JAbsent,
           JErr("object", JNum(-32601, 0), JStr("test"), JAbsent)),
      JMsg(JStr("2.0"), JAbsent, JAbsent, JNull, JAbsent,
           JErr("object", JAbsent, JStr("test"), JAbsent)) }
BatchToks == {OBJ(o) : o \in BatchObjs} \cup {NUL, SC}
RECURSIVE SeqsUpTo(_, _)
SeqsUpTo(S, n) ==
    IF n = 0 THEN {<<>>}
    ELSE LET shorter == SeqsUpTo(S, n - 1)
         IN shorter \cup {Append(q, x) : q \in {r \in shorter : Len(r) = n - 1}, x \in S}
BatchTexts ==
    {<<>>, <<WS>>, <<WS, WS>>, <<LB>>, <<NUL>>, <<WS, LB, RB>>, <<LB, JK, JK, JK, RB>>,
     <<LB, OBJ(EmptyObj), CM, RB>>, <<OBJ(EmptyObj)>>}
      \cup {Batch([i \in 1..Len(q) |-> <<q[i]>>]) : q \in SeqsUpTo(BatchToks, MaxBatch)}

\* Arguments handed to the constructors.
GoIds == {GoNil, GoStr("123"), GoStr(""), GoBool(TRUE), GoSlice, GoMap}
           \cup {GoInt(n) : n \in Ints} \cup {GoInt64(n) : n \in Ints}
           \cup {GoFloat(n, f) : n \in Ints, f \in {0, 5}}
Methods == {"", "update"}
GoParams == {GoNil, GoInt(0), GoChan}
GoResults == {GoNil, GoStr("OK"), GoStr(""), GoInt(0), GoFloat(1, 5), GoBool(FALSE),
              GoSlice, GoNilSlice, GoMap, GoChan}
RpcErrs == {NilErrorObj}
             \cup {CreateError(c, "test", h, GoStr("xx")) : c \in {1, -32601}, h \in BOOLEAN}

\* Fragments handed to Batch: messages the constructors build, the empty
\* text a failed constructor returns, and text that is no message.
BuiltFrags ==
    { Request(GoStr("123"), "update", FALSE, GoNil).str,
      Request(GoInt(0), "update", TRUE, GoInt(0)).str,
      Notification("update", FALSE, GoNil).str,
      Success(GoStr("123"), GoStr("OK")).str,
      Error(GoNil, CreateError(1, "test", FALSE, GoNil)).str }
BatchFrags == BuiltFrags \cup {<<>>, <<JK>>}

\* -------------------------------------------------------------------- state
VARIABLES op, text, args, req, res, err, panicked
vars == <<op, text, args, req, res, err, panicked>>

Args(by, id, method, hasArgs, arg, result, rpcerr, batch) ==
    [method |-> method, id |-> id, result |-> result, hasArgs |-> hasArgs, arg |-> arg,
     rpcerr |-> rpcerr, batch |-> batch, by |-> by]
NoArgs == Args("none", GoNil, "", FALSE, GoNil, GoNil, NilErrorObj, <<>>)

Init ==
    /\ op = "none"
    /\ text = <<>>
    /\ args = NoArgs
    /\ req = <<>>
    /\ res = <<>>
    /\ err = NoErr
    /\ panicked = FALSE

\* A constructor call: its text and error become the current ones.
Built(name, a, out) ==
    /\ op' = name
    /\ args' = a
    /\ text' = out.str
    /\ err' = out.err
    /\ req' = <<>>
    /\ res' = <<>>
    /\ panicked' = FALSE

\* Calls are independent of one another: a behaviour is one call on fresh
\* arguments, followed at most by calls that consume what it produced.
Fresh == op = "none"

DoRequest ==
    /\ Fresh
    /\ \E id \in GoIds, method \in Methods, hasArgs \in BOOLEAN, arg \in GoParams :
          /\ hasArgs \/ arg = GoNil
          /\ Built("Request", Args("Request", id, method, hasArgs, arg, GoNil, NilErrorObj, <<>>),
                   Request(id, method, hasArgs, arg))

DoNotification ==
    /\ Fresh
    /\ \E method \in Methods, hasArgs \in BOOLEAN, arg \in GoParams :
          /\ hasArgs \/ arg = GoNil
          /\ Built("Notification",
                   Args("Notification", GoNil, method, hasArgs, arg, GoNil, NilErrorObj, <<>>),
                   Notification(method, hasArgs, arg))

DoSuccess ==
    /\ Fresh
    /\ \E id \in GoIds, result \in GoResults :
        Built("Success", Args("Success", id, "", FALSE, GoNil, result, NilErrorObj, <<>>),
              Success(id, result))

DoError ==
    /\ Fresh
    /\ \E id \in GoIds, rpcerr \in RpcErrs :
        Built("Error", Args("Error", id, "", FALSE, GoNil, GoNil, rpcerr, <<>>),
              Error(id, rpcerr))

\* A parser call on msg; keep tells whether msg is the text a constructor
\* has just produced (its arguments are then remembered).
ParsedReq(name, msg, keep, out) ==
    /\ op' = name
    /\ text' = msg
    /\ args' = IF keep THEN args ELSE NoArgs
    /\ req' = out.req
    /\ res' = <<>>
    /\ err' = out.err
    /\ panicked' = out.panic

ParsedRes(name, msg, keep, out) ==
    /\ op' = name
    /\ text' = msg
    /\ args' = IF keep THEN args ELSE NoArgs
    /\ req' = <<>>
    /\ res' = out.res
    /\ err' = out.err
    /\ panicked' = out.panic

DoBatch ==
    /\ Fresh
    /\ \E batch \in SeqsUpTo(BatchFrags, MaxBatch) :
          Built("Batch", Args("Batch", GoNil, "", FALSE, GoNil, GoNil, NilErrorObj, batch),
                [err |-> NoErr, str |-> Batch(batch)])

HasBuilt == args.by # "none" /\ err = NoErr /\ op = args.by

DoParse == Fresh /\ \E msg \in SingleTexts : ParsedReq("Parse", msg, FALSE, Parse(msg))
DoParseBuilt == HasBuilt /\ ParsedReq("Parse", text, TRUE, Parse(text))
DoParseReply == Fresh /\ \E msg \in SingleTexts : ParsedRes("ParseReply", msg, FALSE, ParseReply(msg))
DoParseReplyBuilt == HasBuilt /\ ParsedRes("ParseReply", text, TRUE, ParseReply(text))
DoParseBatch == Fresh /\ \E msg \in BatchTexts : ParsedReq("ParseBatch", msg, FALSE, ParseBatch(msg))
DoParseBatchReply ==
    Fresh /\ \E msg \in BatchTexts : ParsedRes("ParseBatchReply", msg, FALSE, ParseBatchReply(msg))
DoParseBatchBuilt == HasBuilt /\ ParsedReq("ParseBatch", text, TRUE, ParseBatch(text))
DoParseBatchReplyBuilt ==
    HasBuilt /\ ParsedRes("ParseBatchReply", text, TRUE, ParseBatchReply(text))

\* Answering a parsed request: the id of the envelope Parse returned for a
\* built request is handed to Success or to Error.
CanReply == op = "Parse" /\ args.by = "Request" /\ Len(req) = 1 /\ req[1].Type = RequestType
Replied(name, out) ==
    /\ op' = name
    /\ text' = out.str
    /\ err' = out.err
    /\ panicked' = FALSE
    /\ UNCHANGED <<args, req, res>>
DoReplySuccess == CanReply /\ Replied("ReplySuccess", Success(req[1].PlayLoad.ID, GoStr("OK")))
DoReplyError ==
    CanReply /\ Replied("ReplyError", Error(req[1].PlayLoad.ID, CreateError(1, "test", FALSE, GoNil)))

Next ==
    \/ DoRequest
    \/ DoNotification
    \/ DoSuccess
    \/ DoError
    \/ DoParse
    \/ DoParseBuilt
    \/ DoParseReply
    \/ DoParseReplyBuilt
    \/ DoParseBatch
    \/ DoParseBatchReply
    \/ DoBatch
    \/ DoParseBatchBuilt
    \/ DoParseBatchReplyBuilt
    \/ DoReplySuccess
    \/ DoReplyError

Spec == Init /\ [][Next]_vars

\* ------------------------------------------------------------------ claims
\* What the formulas below read off a state.
IsParser == op \in {"Parse", "ParseReply", "ParseBatch", "ParseBatchReply"}
IsSingle == op \in {"Parse", "ParseReply"}
IsBatch == op \in {"ParseBatch", "ParseBatchReply"}
\* The object a single-message parser decoded, when its text decodes.
Decoded == validateMsg(text).err = NoErr
TheObj == validateMsg(text).p
\* The objects a batch parser decoded, when the outer array decodes.
DecodedBatch == ByteLen(text) >= 2 /\ validateMsgBatch(text).err = NoErr
TheObjs == validateMsgBatch(text).payloads
\* The envelopes the last parser call returned.
Out == IF op \in {"Parse", "ParseBatch"} THEN req ELSE res
HasVersion(o) == o.jsonrpc = JStr(jsonRPCVersion)
HasMethod(o) == o.method.k = "string" /\ o.method.s # ""
HasID(o) == o.id.k \notin {"absent", "null"}
ValidTags == {RequestType, NotificationType, SuccessType, ErrorType}
FiveTags == ValidTags \cup {Invalid}

\* C1: an object with jsonrpc "2.0" and a non-empty method is tagged Request
\* when its id is present and non-null and Notification otherwise (absent
\* and null ids alike), by Parse and in every element ParseBatch returns.
ReqTagOf(o) == IF HasID(o) THEN RequestType ELSE NotificationType
C1_RequestIffId ==
    /\ (op = "Parse" /\ Decoded /\ HasVersion(TheObj) /\ HasMethod(TheObj))
         => /\ ~panicked
            /\ Len(req) = 1
            /\ req[1].Type = ReqTagOf(TheObj)
    /\ (op = "ParseBatch" /\ DecodedBatch)
         => \A i \in 1..Len(req) :
               (HasVersion(TheObjs[i]) /\ HasMethod(TheObjs[i]))
                  => req[i].Type = ReqTagOf(TheObjs[i])
C1_Witness ==
    /\ op = "Parse"
    /\ Decoded
    /\ HasVersion(TheObj) /\ HasMethod(TheObj)
    /\ TheObj.id = JNull
    /\ TheObj.result # JAbsent
    /\ Len(req) = 1
    /\ req[1].Type = NotificationType

\* C2: every envelope ParseReply returns for an object with jsonrpc "2.0" is
\* tagged Error exactly when the error member is present and non-null, and
\* otherwise Success exactly when the result member is present and non-null;
\* its code, message, data, result and id are the decoded ones.
HasError(o) == o.error.k \notin {"absent", "null"}
HasResult(o) == o.result.k \notin {"absent", "null"}
ReplyTagRule(o, r) ==
    /\ r.Type = ErrorType <=> HasError(o)
    /\ ~HasError(o) => (r.Type = SuccessType <=> HasResult(o))
    /\ r.PlayLoad.Result = ToGo(o.result)
    /\ r.PlayLoad.ID = ToGo(o.id)
    /\ o.error.k = "object"
         => /\ GoFloat(r.PlayLoad.Error.Code, 0) = ToGo(o.error.code)
            /\ GoStr(r.PlayLoad.Error.Message) = ToGo(o.error.message)
            /\ r.PlayLoad.Error.Data = ToGo(o.error.data)
C2_ErrorIffErrorPresent ==
    /\ (op = "ParseReply" /\ Decoded /\ HasVersion(TheObj))
         => \A i \in 1..Len(res) : ReplyTagRule(TheObj, res[i])
    /\ (op = "ParseBatchReply" /\ DecodedBatch)
         => \A i \in 1..Len(res) :
               HasVersion(TheObjs[i]) => ReplyTagRule(TheObjs[i], res[i])

\* C3 as stated: an object whose jsonrpc is anything but "2.0" gives an
\* Invalid envelope reported as "Invalid Request".
RPCInvalidRequest == CreateError(-32600, "Invalid Request", FALSE, GoNil)
VersionIsText(o) == o.jsonrpc.k \in {"absent", "string"}
OthersAsExpected(o) ==
    IF op = "Parse" THEN o.method.k \in {"absent", "string"} ELSE o.error.k # "object"
C4_TagIsOneOfFive ==
    IsParser => \A i \in 1..Len(Out) : Out[i].Type \in FiveTags

\* What a value handed to a constructor reads as after encoding and decoding:
\* a string as the same string, an integer as the float64 of the same value.
Legal(id) == id.k \in {"nil", "string", "int"}
AsDecoded(g) ==
    CASE g.k = "string" -> GoStr(g.s)
      [] g.k \in {"int", "int64", "float64"} -> GoFloat(g.n, g.f)
      [] OTHER -> g
BuiltRequest == args.by \in {"Request", "Notification"} /\ ~args.hasArgs
RoundTripReq ==
    /\ ~panicked
    /\ err = NoErr
    /\ Len(req) = 1
    /\ req[1].Type = (IF args.id.k = "nil" THEN NotificationType ELSE RequestType)
    /\ req[1].PlayLoad.Method = args.method
    /\ req[1].PlayLoad.ID = AsDecoded(args.id)

\* C5 as stated: for every method and every id that is a string, an integer
\* or nil, Request(id, method) succeeds and Parse of its text gives Request
\* (id given) or Notification (no id) with that method and that id.
C5_RequestRoundTripAnyMethod ==
    /\ (op \in {"Request", "Notification"} /\ BuiltRequest /\ Legal(args.id))
         => err = NoErr /\ text # <<>>
    /\ (op = "Parse" /\ BuiltRequest) => RoundTripReq

\* C5 amended: the same for every non-empty method; with the empty method
\* Request succeeds as well, and Parse tags its text Invalid.
C5_RequestRoundTrip ==
    /\ (op \in {"Request", "Notification"} /\ BuiltRequest /\ Legal(args.id))
         => err = NoErr /\ text # <<>>
    /\ (op = "Parse" /\ BuiltRequest /\ args.method # "") => RoundTripReq
    /\ (op = "Parse" /\ BuiltRequest /\ args.method = "")
         => /\ ~panicked
            /\ Len(req) = 1
            /\ req[1].Type = Invalid
            /\ err = ErrJsonrpcObject
C5_Witness ==
    /\ op = "Parse"
    /\ args.by = "Request"
    /\ args.method = "update"
    /\ args.id = GoInt(0)
    /\ Len(req) = 1
    /\ req[1].Type = RequestType
    /\ req[1].PlayLoad.ID = GoFloat(0, 0)

\* C6: for every legal id and every result that is a non-null JSON value,
\* Success(id, result) succeeds and ParseReply of its text gives a Success
\* envelope with that result and that id.
IsValue(g) == g.k \in {"string", "int", "float64", "bool", "slice", "map"}
C6_SuccessRoundTrip ==
    /\ (op = "Success" /\ Legal(args.id) /\ IsValue(args.result))
         => err = NoErr /\ text # <<>>
    /\ (op = "ParseReply" /\ args.by = "Success" /\ IsValue(args.result))
         => /\ ~panicked
            /\ err = NoErr
            /\ Len(res) = 1
            /\ res[1].Type = SuccessType
            /\ res[1].PlayLoad.Result = AsDecoded(args.result)
            /\ res[1].PlayLoad.ID = AsDecoded(args.id)
C6_Witness ==
    /\ op = "ParseReply"
    /\ args.by = "Success"
    /\ args.result = GoBool(FALSE)
    /\ args.id = GoStr("")
    /\ Len(res) = 1
    /\ res[1].Type = SuccessType
    /\ res[1].PlayLoad.Result = GoBool(FALSE)

\* C7: no text that decodes as an object, or as an array of objects, makes
\* a parser abort.
C7_NoPanic == IsParser => ~panicked

\* C8: a batch parser given an array of n objects returns n envelopes in
\* order, each the envelope the single-message parser gives for that
\* element alone, a malformed element being tagged Invalid.
ItemsOf(msg) == ArrayOf(StripWS(msg))
AloneReq(o) == Parse(<<OBJ(o)>>).req
AloneRes(o) == ParseReply(<<OBJ(o)>>).res
Malformed(o) ==
    \/ ~HasVersion(o)
    \/ IF op = "ParseBatch" THEN ~HasMethod(o) ELSE ~HasError(o) /\ ~HasResult(o)
C8_BatchElementwise ==
    (IsBatch /\ DecodedBatch)
       => /\ ~panicked
          /\ err = NoErr
          /\ Len(Out) = Len(ItemsOf(text))
          /\ \A i \in 1..Len(Out) :
                /\ op = "ParseBatch" => <<Out[i]>> = AloneReq(TheObjs[i])
                /\ op = "ParseBatchReply" => <<Out[i]>> = AloneRes(TheObjs[i])
                /\ Malformed(TheObjs[i]) => Out[i].Type = Invalid

\* C9 as stated: when the outer array fails to decode, batch parsing gives
\* exactly one envelope, tagged Invalid, carrying "Parse error".
RPCParseError == CreateError(-32700, "Parse error", FALSE, GoNil)
OuterFails == IsBatch /\ ByteLen(text) >= 2 /\ ~UnmarshalMaps(text).ok
IntegerValued(id) == id.k \in {"int", "int64", "float64"} /\ id.f = 0
C10_ValidatorAcceptsIntegers ==
    (op \in {"Request", "Success", "Error"} /\ err \in {NoErr, ErrInvalidID})
       => (err = NoErr <=> (args.id.k \in {"nil", "string"} \/ IntegerValued(args.id)))

\* C11 as stated: a constructor that rejects its input (an illegal id, or a
\* nil result for Success) returns no text and reports an Error Object of
\* Internal-error class, code -32603 and message "Internal error".
RPCInternalError == CreateError(-32603, "Internal error", FALSE, GoNil)
IsConstructor == op \in {"Request", "Notification", "Success", "Error"}
IllegalKind(id) == id.k = "bool" \/ id.k \in {"slice", "map"} \/ (id.k = "float64" /\ id.f # 0)
NilResult == op = "Success" /\ args.result = GoNil
IllegalJsonId(j) == j.k \in {"bool", "object", "array"} \/ (j.k = "number" /\ j.f # 0)
C12_IllegalIdIsInvalid ==
    /\ (IsSingle /\ Decoded /\ HasVersion(TheObj) /\ IllegalJsonId(TheObj.id))
         => \A i \in 1..Len(Out) : Out[i].Type = Invalid
    /\ (IsBatch /\ DecodedBatch)
         => \A i \in 1..Len(Out) :
               (HasVersion(TheObjs[i]) /\ IllegalJsonId(TheObjs[i].id))
                  => Out[i].Type = Invalid

\* C13 as stated: empty or whitespace-only text gives an Invalid result
\* carrying "Invalid Request".
RECURSIVE IsBlank(_)
IsBlank(msg) == msg = <<>> \/ (Head(msg).tk = " " /\ IsBlank(Tail(msg)))
BlankError ==
    IF op = "ParseBatch" /\ ByteLen(text) < 2 THEN ErrBatchEmpty
    ELSE IF text = <<>> \/ (op = "ParseBatchReply" /\ ByteLen(text) < 2) THEN ErrEmptyMessage
    ELSE ErrMsgStructures
ReplyTagOf(o) == IF o.error.k # "absent" THEN ErrorType ELSE SuccessType
RECURSIVE OffsetOf(_, _)
OffsetOf(batch, i) ==
    \* the number of tokens of the batch text before fragment i
    IF i = 1 THEN 1 ELSE OffsetOf(batch, i - 1) + Len(batch[i - 1]) + 1
FragmentAt(i) ==
    LET b == args.batch
        from == OffsetOf(b, i)
    IN /\ SubSeq(text, from + 1, from + Len(b[i])) = b[i]
       /\ text[from + Len(b[i]) + 1] = (IF i = Len(b) THEN RB ELSE CM)
C15_BatchConcatenates ==
    /\ op = "Batch"
         => /\ err = NoErr
            /\ args.batch = <<>> => text = <<LB, RB>>
            /\ args.batch # <<>>
                 => /\ text[1] = LB
                    /\ Len(text) = OffsetOf(args.batch, Len(args.batch))
                                     + Len(args.batch[Len(args.batch)]) + 1
                    /\ \A i \in 1..Len(args.batch) : FragmentAt(i)
    /\ (op = "ParseBatch" /\ args.by = "Batch"
          /\ \A i \in 1..Len(args.batch) : args.batch[i] \in BuiltFrags)
         => /\ ~panicked
            /\ err = NoErr
            /\ Len(req) = Len(args.batch)
            /\ \A i \in 1..Len(req) : <<req[i]>> = Parse(args.batch[i]).req
C15_Witness ==
    /\ op = "ParseBatch"
    /\ args.by = "Batch"
    /\ Len(args.batch) = 2
    /\ Len(req) = 2
    /\ req[1].Type = NotificationType
    /\ req[2].Type = RequestType
    /\ req[2].PlayLoad.ID = GoStr("123")

\* C16: the id Parse returns for a request built with a string or integer id
\* is accepted by Success and by Error, and the reply carries the id of the
\* request.
C16_ParsedRequestAnswerable ==
    (op \in {"ReplySuccess", "ReplyError"} /\ args.id.k \in {"string", "int"})
       => /\ err = NoErr
          /\ Len(text) = 1
          /\ text[1].tk = "obj"
          /\ text[1].o.id = ToJSON(args.id)

\* C17: whenever Error(id, e) returns text without an error for a legal id,
\* ParseReply of the text gives an Error envelope with the code, message and
\* data of e and the given id; e may be the nil pointer.
C17_ErrorRoundTrip ==
    (op = "ParseReply" /\ args.by = "Error" /\ Legal(args.id))
       => /\ ~panicked
          /\ Len(res) = 1
          /\ res[1].Type = ErrorType
          /\ res[1].PlayLoad.Error.Code = args.rpcerr.Code
          /\ res[1].PlayLoad.Error.Message = args.rpcerr.Message
          /\ res[1].PlayLoad.Error.Data = AsDecoded(args.rpcerr.Data)
          /\ res[1].PlayLoad.ID = AsDecoded(args.id)

====
